---- MODULE Spec2Model ----
(***************************************************************************)
(* Model of the retrieval subsystem of src/rag.py: the chunker             *)
(* (PDFProcessor), the embedding provider (EmbeddingGenerator) and the     *)
(* document store with its similarity search (PolicyWordingRAG) over a     *)
(* PostgreSQL database with READ COMMITTED transactions.                   *)
(*                                                                         *)
(* Text is a sequence of one-character strings.  Positions are 0-based as  *)
(* in Python: the character at position i of t is t[i + 1].                *)
(***************************************************************************)
EXTENDS Integers, Sequences, FiniteSets, TLC

(***************************************************************************)
(* Bounds of the model.                                                    *)
(***************************************************************************)
\* number of concurrent callers (request handlers) of the store
NumProcs == 2
\* the SERIAL sequence of policy_documents.id stops here
MaxDocId == 2
\* PDFProcessor() is built with chunk_size 1500 and chunk_overlap 300; the
\* store specification runs it with these scaled-down values
ChunkSize == 3
ChunkOverlap == 1
\* ranking specification: largest number of candidate rows a query fetches
MaxRows == 3
\* chunker specification: longest text and largest chunk_size it is run with
MaxTextLen == 5
MaxChunkSize == 4

(***************************************************************************)
(* Python string primitives.                                               *)
(***************************************************************************)
Min(a, b) == IF a < b THEN a ELSE b

Max(a, b) == IF a > b THEN a ELSE b

\* a slice bound as Python adjusts it: negative counts from the end, then
\* clamped to 0..len
SliceIndex(i, len) == IF i < 0 THEN Max(i + len, 0) ELSE Min(i, len)

\* text[start:end]
Slice(text, start, end) ==
    LET s == SliceIndex(start, Len(text))
        e == SliceIndex(end, Len(text))
    IN  IF s < e THEN SubSeq(text, s + 1, e) ELSE <<>>

\* text.rfind(ch, start, end): highest position in the adjusted [start, end)
\* holding ch, or -1
RFind(text, ch, start, end) ==
    LET s == SliceIndex(start, Len(text))
        e == SliceIndex(end, Len(text))
        hits == {i \in s..(e - 1) : text[i + 1] = ch}
    IN  IF hits = {} THEN -1 ELSE CHOOSE i \in hits : \A j \in hits : j <= i

IsSpace(ch) == ch = " "

\* text.strip()
RECURSIVE LStrip(_)
LStrip(text) ==
    IF text # <<>> /\ IsSpace(Head(text)) THEN LStrip(Tail(text)) ELSE text

RECURSIVE RStrip(_)
RStrip(text) ==
    IF text # <<>> /\ IsSpace(text[Len(text)])
    THEN RStrip(SubSeq(text, 1, Len(text) - 1))
    ELSE text

Strip(text) == LStrip(RStrip(text))

\* re.sub(r'\s+', ' ', text): every run of whitespace becomes one space
RECURSIVE CollapseSpaces(_)
CollapseSpaces(text) ==
    IF text = <<>> THEN <<>>
    ELSE IF IsSpace(Head(text))
         THEN <<" ">> \o CollapseSpaces(LStrip(text))
         ELSE <<Head(text)>> \o CollapseSpaces(Tail(text))

\* the first line of chunk_text
NormalizeText(text) == Strip(CollapseSpaces(text))

\* " ".join(parts)
RECURSIVE JoinSpace(_)
JoinSpace(parts) ==
    IF parts = <<>> THEN <<>>
    ELSE IF Len(parts) = 1 THEN parts[1]
    ELSE parts[1] \o <<" ">> \o JoinSpace(Tail(parts))

(***************************************************************************)
(* PDFProcessor.chunk_text.  The loop's only control state is `start`, so  *)
(* it runs forever exactly when a value of `start` comes back; `visited`   *)
(* detects that and the result is then marked diverged (the call never     *)
(* returns).                                                               *)
(***************************************************************************)
\* the window end chosen for the window starting at start
WindowEnd(text, start, size) ==
    LET end == start + size
        sentence_end == Max(Max(RFind(text, ".", start, end),
                                RFind(text, "!", start, end)),
                            RFind(text, "?", start, end))
    IN  IF end < Len(text) /\ sentence_end > start
        THEN sentence_end + 1
        ELSE end

\* the loop, were every window appended, empty or not
RECURSIVE ChunkLoopKeepsEmpty(_, _, _, _, _, _, _, _)
ChunkLoopKeepsEmpty(text, page_number, size, overlap, start, chunk_index, chunks, visited) ==
    IF ~(start < Len(text)) THEN [chunks |-> chunks, diverged |-> FALSE]
    ELSE IF start \in visited THEN [chunks |-> chunks, diverged |-> TRUE]
    ELSE LET end == WindowEnd(text, start, size)
             chunk == [text |-> Strip(Slice(text, start, end)),
                       page_number |-> page_number,
                       chunk_index |-> chunk_index,
                       start_char |-> start, end_char |-> end]
         IN  ChunkLoopKeepsEmpty(text, page_number, size, overlap,
                                 end - overlap, chunk_index + 1,
                                 Append(chunks, chunk), visited \cup {start})

\* the loop, were the next window to start at end + overlap
RECURSIVE ChunkLoopSkipsOverlap(_, _, _, _, _, _, _, _)
ChunkLoopSkipsOverlap(text, page_number, size, overlap, start, chunk_index, chunks, visited) ==
    IF ~(start < Len(text)) THEN [chunks |-> chunks, diverged |-> FALSE]
    ELSE IF start \in visited THEN [chunks |-> chunks, diverged |-> TRUE]
    ELSE LET end == WindowEnd(text, start, size)
             piece == Strip(Slice(text, start, end))
             kept == piece # <<>>
             chunk == [text |-> piece, page_number |-> page_number,
                       chunk_index |-> chunk_index,
                       start_char |-> start, end_char |-> end]
         IN  ChunkLoopSkipsOverlap(text, page_number, size, overlap,
                                   end + overlap,
                                   IF kept THEN chunk_index + 1 ELSE chunk_index,
                                   IF kept THEN Append(chunks, chunk) ELSE chunks,
                                   visited \cup {start})

RECURSIVE ChunkLoop(_, _, _, _, _, _, _, _)
ChunkLoop(text, page_number, size, overlap, start, chunk_index, chunks, visited) ==
    IF ~(start < Len(text)) THEN [chunks |-> chunks, diverged |-> FALSE]
    ELSE IF start \in visited THEN [chunks |-> chunks, diverged |-> TRUE]
    ELSE LET end == WindowEnd(text, start, size)
             piece == Strip(Slice(text, start, end))
             kept == piece # <<>>
             chunk == [text |-> piece, page_number |-> page_number,
                       chunk_index |-> chunk_index,
                       start_char |-> start, end_char |-> end]
         IN  ChunkLoop(text, page_number, size, overlap, end - overlap,
                       IF kept THEN chunk_index + 1 ELSE chunk_index,
                       IF kept THEN Append(chunks, chunk) ELSE chunks,
                       visited \cup {start})

chunk_text(text, page_number, size, overlap) ==
    ChunkLoop(NormalizeText(text), page_number, size, overlap, 0, 0, <<>>, {})

\* the values `start` takes at the top of the loop body, in order, up to and
\* including the first value that comes back
RECURSIVE WindowStarts(_, _, _, _, _)
WindowStarts(text, size, overlap, start, visited) ==
    IF ~(start < Len(text)) THEN <<>>
    ELSE IF start \in visited THEN <<start>>
    ELSE <<start>> \o WindowStarts(text, size, overlap,
                                   WindowEnd(text, start, size) - overlap,
                                   visited \cup {start})

\* the windows of the loop in order, each with its start, its end and the
\* text it slices (before trimming), up to the first start that comes back
RECURSIVE Windows(_, _, _, _, _)
Windows(text, size, overlap, start, visited) ==
    IF ~(start < Len(text)) \/ start \in visited THEN <<>>
    ELSE <<[start |-> start, end |-> WindowEnd(text, start, size),
            text |-> Slice(text, start, WindowEnd(text, start, size))]>>
         \o Windows(text, size, overlap,
                    WindowEnd(text, start, size) - overlap,
                    visited \cup {start})

\* PDFProcessor.__init__: the configuration is stored as given
PDFProcessor_init(chunk_size, chunk_overlap) ==
    [chunk_size |-> chunk_size, chunk_overlap |-> chunk_overlap,
     rejected |-> FALSE]

(***************************************************************************)
(* PDFProcessor: text extraction and the PDF pipeline.  A PDF is the       *)
(* sequence of the raw texts of its pages.                                 *)
(***************************************************************************)
\* the characters _clean_text keeps: word characters, whitespace and
\* . , ! ? ; : ( ) - ' "
Allowed(ch) == ch # "#"

RECURSIVE KeepAllowed(_)
KeepAllowed(text) ==
    IF text = <<>> THEN <<>>
    ELSE IF Allowed(Head(text))
         THEN <<Head(text)>> \o KeepAllowed(Tail(text))
         ELSE KeepAllowed(Tail(text))

_clean_text(text) == Strip(KeepAllowed(CollapseSpaces(text)))

\* the (text, page_number) pairs of the pages from page_num on (0-based)
\* whose text is not blank
RECURSIVE ExtractFrom(_, _)
ExtractFrom(pages, page_num) ==
    IF page_num >= Len(pages) THEN <<>>
    ELSE LET text == pages[page_num + 1]
             rest == ExtractFrom(pages, page_num + 1)
         IN  IF Strip(text) # <<>>
             THEN <<[text |-> _clean_text(text), page_number |-> page_num + 1]>> \o rest
             ELSE rest

extract_text_from_pdf(pages) == ExtractFrom(pages, 0)

\* all_chunks.extend(chunk_text(text, page_num)) over the pages
RECURSIVE ChunkPages(_, _, _)
ChunkPages(pages_text, size, overlap) ==
    IF pages_text = <<>> THEN [chunks |-> <<>>, diverged |-> FALSE]
    ELSE LET first == chunk_text(pages_text[1].text, pages_text[1].page_number,
                                 size, overlap)
             rest == ChunkPages(Tail(pages_text), size, overlap)
         IN  [chunks |-> first.chunks \o rest.chunks,
              diverged |-> first.diverged \/ rest.diverged]

process_pdf_bytes(pages, size, overlap) ==
    ChunkPages(extract_text_from_pdf(pages), size, overlap)

(***************************************************************************)
(* EmbeddingGenerator.  The sentence-transformer model is an external      *)
(* function of the text; Encode stands for it with a fixed function into   *)
(* small integer vectors (the number of "a"s and of "b"s in the text).     *)
(* The model works in the dimension 2 of the specification's test vectors. *)
(***************************************************************************)
embedding_dim == 2

CountChar(text, ch) == Cardinality({i \in 1..Len(text) : text[i] = ch})

Encode(text) == <<CountChar(text, "a"), CountChar(text, "b")>>

ZeroVector == [i \in 1..embedding_dim |-> 0]

\* generate_embedding: the encoding, or the zero vector when encoding fails
generate_embedding(text, fails) == IF fails THEN ZeroVector ELSE Encode(text)

\* the batch, were a failure to give back no vector at all
EmbeddingsBatchEmptyOnFailure(texts, fails) ==
    IF fails THEN <<>> ELSE [i \in 1..Len(texts) |-> Encode(texts[i])]

\* generate_embeddings_batch: one vector per text in order; a failure
\* anywhere gives the zero vector for every text
generate_embeddings_batch(texts, fails) ==
    [i \in 1..Len(texts) |-> IF fails THEN ZeroVector ELSE Encode(texts[i])]

(***************************************************************************)
(* _compute_document_hash.  SHA-256 is modelled as an injective encoding   *)
(* of the text (no collisions inside the bounds).                          *)
(***************************************************************************)
CharCode(ch) ==
    CASE ch = " " -> 0
      [] ch = "." -> 1
      [] ch = "a" -> 2
      [] ch = "b" -> 3
      [] OTHER -> 4

RECURSIVE _compute_document_hash(_)
_compute_document_hash(text) ==
    IF text = <<>> THEN 1
    ELSE _compute_document_hash(SubSeq(text, 1, Len(text) - 1)) * 5
         + CharCode(text[Len(text)])

(***************************************************************************)
(* Cosine similarity and ranking (search_similar_chunks, lines 436-464).   *)
(* A score is kept exactly as the fraction num/den = dot*|dot| /           *)
(* (|q|^2 * |s|^2), the cosine squared with its sign: an increasing        *)
(* function of the cosine, so order and ties are those of the cosine.      *)
(***************************************************************************)
RECURSIVE SumTo(_, _)
SumTo(f, n) == IF n = 0 THEN 0 ELSE SumTo(f, n - 1) + f[n]

Dot(u, v) == SumTo([i \in 1..Len(u) |-> u[i] * v[i]], Len(u))

NormSq(v) == Dot(v, v)

Abs(x) == IF x < 0 THEN 0 - x ELSE x

\* the division of line 445, taken without the guard
CosineUnguarded(query_embedding, stored_embedding) ==
    LET d == Dot(query_embedding, stored_embedding)
    IN  [num |-> d * Abs(d),
         den |-> NormSq(query_embedding) * NormSq(stored_embedding)]

Similarity(query_embedding, stored_embedding) ==
    IF NormSq(stored_embedding) > 0 /\ NormSq(query_embedding) > 0
    THEN CosineUnguarded(query_embedding, stored_embedding)
    ELSE [num |-> 0, den |-> 1]

\* score a is less than score b (both denominators positive)
ScoreLess(a, b) == a.num * b.den < b.num * a.den

ScoreRow(row, query_embedding) ==
    [document_id |-> row.document_id,
     chunk_index |-> row.chunk_index,
     chunk_text |-> row.chunk_text,
     page_number |-> row.page_number,
     similarity_score |-> Similarity(query_embedding, row.embedding)]

RECURSIVE InsertDescUnstable(_, _)
InsertDescUnstable(sorted, x) ==
    IF sorted = <<>> THEN <<x>>
    ELSE IF ~ScoreLess(x.similarity_score, Head(sorted).similarity_score)
         THEN <<x>> \o sorted
         ELSE <<Head(sorted)>> \o InsertDescUnstable(Tail(sorted), x)

\* list.sort(key=similarity_score, reverse=True) is stable: an element goes
\* behind every element already placed whose score is not less than its own
RECURSIVE InsertDesc(_, _)
InsertDesc(sorted, x) ==
    IF sorted = <<>> THEN <<x>>
    ELSE IF ScoreLess(Head(sorted).similarity_score, x.similarity_score)
         THEN <<x>> \o sorted
         ELSE <<Head(sorted)>> \o InsertDesc(Tail(sorted), x)

RECURSIVE SortDesc(_)
SortDesc(items) ==
    IF items = <<>> THEN <<>>
    ELSE InsertDesc(SortDesc(SubSeq(items, 1, Len(items) - 1)), items[Len(items)])

TopSliceShort(similarities, top_k) == Slice(similarities, 0, top_k - 1)

\* similarities[:top_k]
TopSlice(similarities, top_k) == Slice(similarities, 0, top_k)

\* lines 432-464: the rows as fetched, scored, sorted and cut
RankRows(results, query_embedding, top_k) ==
    IF results = <<>> THEN <<>>
    ELSE TopSlice(SortDesc([i \in 1..Len(results) |->
                               ScoreRow(results[i], query_embedding)]),
                  top_k)

(***************************************************************************)
(* validate_documents (stream_invoice_clean.py).  A record is the JSON     *)
(* object the extraction produced; a key that is absent reads as the empty *)
(* string.  A date string is kept as the format it is written in and the   *)
(* day it names.  The message of a check is left out.                      *)
(***************************************************************************)
\* str.upper()
UpperText(text) ==
    [i \in 1..Len(text) |->
        CASE text[i] = "a" -> "A"
          [] text[i] = "b" -> "B"
          [] text[i] = "k" -> "K"
          [] OTHER -> text[i]]

\* str.replace(" ", "")
RECURSIVE RemoveSpaces(_)
RemoveSpaces(text) ==
    IF text = <<>> THEN <<>>
    ELSE IF Head(text) = " " THEN RemoveSpaces(Tail(text))
    ELSE <<Head(text)>> \o RemoveSpaces(Tail(text))

\* a in b, for strings
IsSubstring(a, b) ==
    \E i \in 0..(Len(b) - Len(a)) : SubSeq(b, i + 1, i + Len(a)) = a

\* the length of the first word of a text that starts with one
RECURSIVE WordLen(_)
WordLen(text) ==
    IF text = <<>> \/ IsSpace(Head(text)) THEN 0 ELSE 1 + WordLen(Tail(text))

\* set(text.split())
RECURSIVE Words(_)
Words(text) ==
    IF LStrip(text) = <<>> THEN {}
    ELSE {SubSeq(LStrip(text), 1, WordLen(LStrip(text)))}
         \cup Words(SubSeq(LStrip(text), WordLen(LStrip(text)) + 1,
                           Len(LStrip(text))))

NoDate == [fmt |-> "", day |-> 0]

date_formats == {"%Y-%m-%d", "%d-%m-%Y", "%d/%m/%Y", "%Y/%m/%d", "%d.%m.%Y"}

\* parse_date: the day, or 0 for None when no format fits
parse_date(date_str) == IF date_str.fmt \in date_formats THEN date_str.day ELSE 0

NoResults ==
    [overall_status |-> "PASS", total_checks |-> 0, passed_checks |-> 0,
     failed_checks |-> 0, warnings |-> 0, checks |-> <<>>]

\* add_check, were a warning left out of the warnings count
add_checkDropsWarning(validation_results, rule_name, status, severity) ==
    [validation_results EXCEPT
       !.total_checks = @ + 1,
       !.passed_checks = IF status = "PASS" THEN @ + 1 ELSE @,
       !.failed_checks = IF status = "FAIL" THEN @ + 1 ELSE @,
       !.overall_status =
           IF status = "FAIL" /\ severity = "error" THEN "FAIL" ELSE @,
       !.checks = Append(@, [rule |-> rule_name, status |-> status,
                             severity |-> severity])]

\* add_check (lines 341-358)
add_check(validation_results, rule_name, status, severity) ==
    [validation_results EXCEPT
       !.total_checks = @ + 1,
       !.passed_checks = IF status = "PASS" THEN @ + 1 ELSE @,
       !.failed_checks = IF status = "FAIL" THEN @ + 1 ELSE @,
       !.warnings = IF status = "WARNING" THEN @ + 1 ELSE @,
       !.overall_status =
           IF status = "FAIL" /\ severity = "error" THEN "FAIL" ELSE @,
       !.checks = Append(@, [rule |-> rule_name, status |-> status,
                             severity |-> severity])]

\* 253200/31/2022/191, the quotient both policy numbers are set to, kept as
\* its operands; it is not zero, so it is truthy
policy_num_policy == <<253200, 31, 2022, 191>>

policy_num_claim == <<253200, 31, 2022, 191>>

claim_amount == 45640

min_claim_amount == 0

max_claim_amount == 1000000

\* Rule 1 (lines 360-373)
PolicyNumberMatch(results) ==
    IF policy_num_policy[1] # 0 /\ policy_num_claim[1] # 0
    THEN IF policy_num_policy = policy_num_claim
         THEN add_check(results, "Policy Number Match", "PASS", "error")
         ELSE add_check(results, "Policy Number Match", "FAIL", "error")
    ELSE add_check(results, "Policy Number Match", "WARNING", "warning")

\* Rule 2 (lines 375-391)
VehicleRegistrationMatch(results, reg_policy, reg_claim) ==
    IF reg_policy # <<>> /\ reg_claim # <<>>
    THEN IF reg_policy = reg_claim
         THEN add_check(results, "Vehicle Registration Match", "PASS", "error")
         ELSE add_check(results, "Vehicle Registration Match", "FAIL", "error")
    ELSE add_check(results, "Vehicle Registration Match", "WARNING", "warning")

\* Rule 3, the make (lines 399-405)
VehicleMakeMatch(results, make_policy, make_claim) ==
    IF make_policy # <<>> /\ make_claim # <<>>
    THEN IF IsSubstring(make_policy, make_claim)
            \/ IsSubstring(make_claim, make_policy)
         THEN add_check(results, "Vehicle Make Match", "PASS", "error")
         ELSE add_check(results, "Vehicle Make Match", "FAIL", "error")
    ELSE results

\* Rule 3, the model (lines 407-413)
VehicleModelMatch(results, model_policy, model_claim) ==
    IF model_policy # <<>> /\ model_claim # <<>>
    THEN IF IsSubstring(model_policy, model_claim)
            \/ IsSubstring(model_claim, model_policy)
         THEN add_check(results, "Vehicle Model Match", "PASS", "error")
         ELSE add_check(results, "Vehicle Model Match", "WARNING", "warning")
    ELSE results

\* Rule 4 (lines 415-432)
HolderClaimantMatch(results, holder_name, claimant_name) ==
    IF holder_name # <<>> /\ claimant_name # <<>>
    THEN IF 2 * Cardinality(Words(holder_name) \cap Words(claimant_name))
               >= Cardinality(Words(holder_name))
         THEN add_check(results, "Policy Holder/Claimant Match", "PASS",
                        "error")
         ELSE add_check(results, "Policy Holder/Claimant Match", "WARNING",
                        "warning")
    ELSE add_check(results, "Policy Holder/Claimant Match", "WARNING",
                   "warning")

\* Rule 5 (lines 434-473); parse_date raises nothing, so the except clause
\* of line 468 is never entered
IncidentDateInPeriod(results, policy_start, policy_end, incident_date) ==
    IF policy_start # NoDate /\ policy_end # NoDate /\ incident_date # NoDate
    THEN IF parse_date(policy_start) # 0 /\ parse_date(policy_end) # 0
            /\ parse_date(incident_date) # 0
         THEN IF parse_date(policy_start) <= parse_date(incident_date)
                 /\ parse_date(incident_date) <= parse_date(policy_end)
              THEN add_check(results, "Incident Date within Policy Period",
                             "PASS", "error")
              ELSE add_check(results, "Incident Date within Policy Period",
                             "FAIL", "error")
         ELSE add_check(results, "Incident Date within Policy Period",
                        "WARNING", "warning")
    ELSE add_check(results, "Incident Date within Policy Period", "WARNING",
                   "warning")

\* the claim amount rule (lines 476-497)
ClaimAmountInRange(results) ==
    IF claim_amount # 0
    THEN IF min_claim_amount <= claim_amount /\ claim_amount <= max_claim_amount
         THEN add_check(results, "Claim Amount within Range", "PASS", "error")
         ELSE add_check(results, "Claim Amount within Range", "WARNING",
                        "warning")
    ELSE add_check(results, "Claim Amount within Range", "WARNING", "warning")

\* validate_documents (lines 329-499)
validate_documents(policy_json, claim_json) ==
    ClaimAmountInRange(
      IncidentDateInPeriod(
        HolderClaimantMatch(
          VehicleModelMatch(
            VehicleMakeMatch(
              VehicleRegistrationMatch(
                PolicyNumberMatch(NoResults),
                RemoveSpaces(UpperText(Strip(
                    policy_json.insured_vehicle.registration_number))),
                RemoveSpaces(UpperText(Strip(
                    claim_json.vehicle_details.registration_number)))),
              UpperText(Strip(policy_json.insured_vehicle.make)),
              UpperText(Strip(claim_json.vehicle_details.make))),
            UpperText(Strip(policy_json.insured_vehicle.model)),
            UpperText(Strip(claim_json.vehicle_details.model))),
          UpperText(Strip(policy_json.policy_holder_name)),
          UpperText(Strip(claim_json.claimant_name))),
        policy_json.policy_period.start_date,
        policy_json.policy_period.end_date,
        claim_json.incident_date))

(***************************************************************************)
(* The store: the committed rows of policy_documents and policy_chunks,    *)
(* the SERIAL sequence of document ids, and the callers.  Every call runs  *)
(* on a connection and a transaction of its own; rows a call has inserted  *)
(* and not yet committed live in its locals and are visible to no other    *)
(* call (READ COMMITTED).                                                  *)
(***************************************************************************)
VARIABLES
    docs,         \* committed policy_documents rows
    chunks,       \* committed policy_chunks rows
    nextDocId,    \* next value of the sequence behind policy_documents.id
    pc,           \* per caller: where its call stands
    arg,          \* per caller: the arguments of its call
    loc,          \* per caller: the locals of its call
    out,          \* per caller: how the call ended
    prev,         \* SeqSpec history: the add_policy_document call that
                  \* returned last, if no other call completed since
    deleted_ids,  \* SeqSpec history: ids delete_document removed a row for
    rank,         \* RankSpec: one ranking of drawn rows
    chunking,     \* ChunkSpec: one PDFProcessor and one chunk_text call
    validation,   \* ValidateSpec: one validate_documents call
    session,      \* AppSpec: st.session_state of one browser session
    ui            \* AppSpec history: the last validation and analysis runs

vars ==
    <<docs, chunks, nextDocId, pc, arg, loc, out, prev, deleted_ids, rank,
      chunking, validation, session, ui>>

\* the variables only SeqSpec, RankSpec, ChunkSpec, ValidateSpec and
\* AppSpec move
hist == <<prev, deleted_ids, rank, chunking, validation, session, ui>>

Procs == 1..NumProcs

\* the arguments of add_policy_document: document_text (empty is falsy),
\* pdf_bytes (has_pdf: given and not empty; pages: the texts of its pages)
\* and document_name (metadata is stored the way document_name is)
TextInput(t) == [text |-> t, has_pdf |-> FALSE, pages |-> <<>>, name |-> "n1"]

PdfInput(pages) ==
    [text |-> <<>>, has_pdf |-> TRUE, pages |-> pages, name |-> "n1"]

\* the same content under another document_name
Renamed(input) == [input EXCEPT !.name = "n2"]

\* what a single caller is given, one call after another
Inputs ==
    { TextInput(<<>>),
      TextInput(<<" ">>),
      TextInput(<<"a", ".", " ", " ", "b">>),
      TextInput(<<"b">>),
      Renamed(TextInput(<<"b">>)),
      PdfInput(<<>>),
      PdfInput(<<<<"b", "#">>>>),
      PdfInput(<<<<" ">>, <<"a">>>>),
      PdfInput(<<<<"a", ".">>, <<" ">>, <<"b">>>>) }

\* what concurrent callers are given
RaceInputs ==
    { TextInput(<<"a", ".", " ", " ", "b">>),
      PdfInput(<<<<"b", "#">>>>),
      PdfInput(<<<<"a", ".">>, <<" ">>, <<"b">>>>) }

\* the queries, top_k values and page filters callers search with
Queries == {<<"a">>, <<"b", "a">>}

TopKArgs == {1, 5}

MinPageArgs == {0, 1}

\* document ids callers pass: 0 stands for an absent (falsy) document_id
DocIdArgs == 0..MaxDocId

\* what the environment may do to a step: nothing, refuse the connection,
\* fail the statement or the commit
AllFaults == {"none", "connect", "db"}

StatementFaults == {"none", "db"}

NoInput == TextInput(<<>>)

NoArg ==
    [op |-> "none", input |-> NoInput, query |-> <<>>, top_k |-> 0,
     document_id |-> 0, min_page |-> 0]

\* the locals of a call, with three facts kept for the record: connections
\* (psycopg2.connect calls made), open (connections the call holds open)
\* and chunked (the chunker was run)
NoLoc ==
    [doc_hash |-> 0, chunks_data |-> <<>>, embeddings |-> <<>>,
     embed_failed |-> FALSE, document_id |-> 0, connections |-> 0,
     open |-> 0, chunked |-> FALSE]

ConnectTwice(l) == [l EXCEPT !.connections = @ + 2]

\* _get_connection: one psycopg2.connect call, whether it succeeds or raises
_get_connection(l) == [l EXCEPT !.connections = @ + 1]

\* the locals of caller p's call once it has asked for its connection
Opened(p) == [loc EXCEPT ![p] = _get_connection(NoLoc)]

\* the locals of caller p's call once psycopg2.connect has returned conn
Connected(p) == [Opened(p)[p] EXCEPT !.open = @ + 1]

LeftOpen(l) == l

\* finally: cur.close(); conn.close()
Closed(l) == [l EXCEPT !.open = @ - 1]

\* caller p's call ends in its first step, its connection got and closed
Served(p) == [loc EXCEPT ![p] = Closed(Connected(p))]

\* caller p's call ends in a later step
Released(p) == [loc EXCEPT ![p] = Closed(loc[p])]

NoOut == [kind |-> "none", err |-> "none", value |-> <<>>]

Return(value) == [kind |-> "return", err |-> "none", value |-> value]

\* a swallowed failure: the call returns value after the error err
ReturnAfter(err, value) == [kind |-> "return", err |-> err, value |-> value]

Raise(err) == [kind |-> "raise", err |-> err, value |-> <<>>]

\* failures of the environment (connection, statement, commit)
EnvFaults == {"connect", "db"}

NoPrev ==
    [op |-> "none", input |-> NoInput, out |-> NoOut, docs |-> {}, nchunks |-> 0]

NoRank ==
    [rows |-> <<>>, query |-> ZeroVector, top_k |-> 0, called |-> FALSE,
     ret |-> <<>>]

NoChunking ==
    [text |-> <<>>, chunk_size |-> 0, chunk_overlap |-> 0,
     constructed |-> FALSE, self |-> PDFProcessor_init(0, 0),
     called |-> FALSE, returned |-> FALSE, chunks |-> <<>>, starts |-> <<>>,
     windows |-> <<>>]

\* the policy record: insured_vehicle, policy_holder_name, policy_period
PolicyRecord(registration_number, make, model, holder_name, start_date, end_date) ==
    [insured_vehicle |->
         [registration_number |-> registration_number, make |-> make,
          model |-> model],
     policy_holder_name |-> holder_name,
     policy_period |-> [start_date |-> start_date, end_date |-> end_date]]

\* the claim record: vehicle_details, claimant_name, incident_date,
\* incident_description
ClaimRecord(registration_number, make, model, claimant_name, incident_date, incident_description) ==
    [vehicle_details |->
         [registration_number |-> registration_number, make |-> make,
          model |-> model],
     claimant_name |-> claimant_name,
     incident_date |-> incident_date,
     incident_description |-> incident_description]

\* a date string: the format it is written in and the day it names;
\* "%d %B %Y" is a format date_formats does not hold
DateString(fmt, day) == [fmt |-> fmt, day |-> day]

\* the records validate_documents is applied to
PolicyRecords ==
    {PolicyRecord(reg, make, model, holder, period[1], period[2]) :
        reg \in {<<>>, <<"k", " ", "1">>},
        make \in {<<>>, <<"a", "b">>},
        model \in {<<>>, <<"a">>},
        holder \in {<<>>, <<"a", " ", "b">>},
        period \in {<<NoDate, NoDate>>,
                    <<DateString("%Y-%m-%d", 1), DateString("%Y-%m-%d", 3)>>,
                    <<DateString("%d %B %Y", 1), DateString("%Y-%m-%d", 3)>>}}

ClaimRecords ==
    {ClaimRecord(reg, make, model, claimant, incident_date, <<"a">>) :
        reg \in {<<>>, <<"K", "1">>, <<"k", "2">>},
        make \in {<<>>, <<" ", "a">>, <<"b", "a">>},
        model \in {<<>>, <<"a">>, <<"b">>},
        claimant \in {<<>>, <<"b">>, <<"k">>},
        incident_date \in {NoDate, DateString("%Y-%m-%d", 2),
                           DateString("%Y-%m-%d", 5),
                           DateString("%d %B %Y", 2)}}

NoValidation ==
    [policy_json |-> PolicyRecord(<<>>, <<>>, <<>>, <<>>, NoDate, NoDate),
     claim_json |-> ClaimRecord(<<>>, <<>>, <<>>, <<>>, NoDate, <<>>),
     called |-> FALSE, results |-> NoResults]

\* None, where a record is expected
None == [none |-> TRUE]

\* what the extraction of the session's uploads may produce
AppPolicies ==
    {PolicyRecord(<<"k", " ", "1">>, <<"a", "b">>, <<"a">>, <<"a", " ", "b">>,
                  DateString("%Y-%m-%d", 1), DateString("%Y-%m-%d", 3))}

AppClaims ==
    {ClaimRecord(<<"K", "1">>, <<" ", "a">>, <<"a">>, <<"b">>,
                 DateString("%Y-%m-%d", 2), <<"a">>),
     ClaimRecord(<<"K", "1">>, <<" ", "a">>, <<"a">>, <<"b">>,
                 DateString("%Y-%m-%d", 2), <<>>),
     ClaimRecord(<<"k", "2">>, <<"b", "a">>, <<"b">>, <<"k">>,
                 DateString("%Y-%m-%d", 5), <<"a">>)}

\* the texts the extraction of the policy wording may produce
WordingTexts == {<<>>, <<"b">>, <<"a", "b">>, <<"b", "a">>}

\* the stripped length below which analyze_claim_with_rag refuses the
\* wording (rag.py line 621: 50, scaled to the texts drawn here)
MinWordingLen == 2

\* the keys the script initialises (lines 549-560); policy_wording_text is
\* absent until a text is extracted, which reads as the empty text
NoSession ==
    [validation_passed |-> FALSE, show_chatbot |-> FALSE, policy_json |-> None,
     claim_json |-> None, rag_analysis |-> FALSE, doc_id |-> 0,
     policy_wording_text |-> <<>>]

\* stage: whether the analysis handler is running; validated: the records
\* and the report of the last validate_documents run; analysis: how the
\* last analyze_claim_with_rag call ended, the document id
\* add_policy_document returned to it and whether list_documents answered;
\* chat: the document_id and the documents of the rows of the last chatbot
\* search
NoUi ==
    [stage |-> "idle",
     validated |-> [policy_json |-> None, claim_json |-> None,
                    results |-> NoResults],
     analysis |-> [outcome |-> "none", returned |-> 0, listed |-> FALSE],
     chat |-> [document_id |-> 0, sources |-> {}]]

(***************************************************************************)
(* Rows and what the database does with them.                              *)
(***************************************************************************)
DocRow(id, document_name, hash, total_chunks) ==
    [id |-> id, document_name |-> document_name, document_hash |-> hash,
     total_chunks |-> total_chunks]

\* the chunk_records, were the first chunk left out
ChunkRecordsSkipFirst(document_id, chunks_data, embeddings) ==
    [i \in 1..(Min(Len(chunks_data), Len(embeddings)) - 1) |->
        [document_id |-> document_id,
         chunk_index |-> chunks_data[i + 1].chunk_index,
         chunk_text |-> chunks_data[i + 1].text,
         page_number |-> chunks_data[i + 1].page_number,
         embedding |-> embeddings[i + 1]]]

\* the chunk_records of lines 346-361
ChunkRecords(document_id, chunks_data, embeddings) ==
    [i \in 1..Min(Len(chunks_data), Len(embeddings)) |->
        [document_id |-> document_id,
         chunk_index |-> chunks_data[i].chunk_index,
         chunk_text |-> chunks_data[i].text,
         page_number |-> chunks_data[i].page_number,
         embedding |-> embeddings[i]]]

Range(f) == {f[i] : i \in DOMAIN f}

InsertingDoc(p) == pc[p] \in {"add_insert_chunks", "add_commit"}

\* the policy_documents row caller p has inserted and not committed
PendingDocs(p) ==
    IF InsertingDoc(p)
    THEN {DocRow(loc[p].document_id, arg[p].input.name, loc[p].doc_hash,
                 Len(loc[p].chunks_data))}
    ELSE {}

\* the policy_chunks rows caller p has inserted and not committed
PendingChunks(p) ==
    IF pc[p] = "add_commit"
    THEN Range(ChunkRecords(loc[p].document_id, loc[p].chunks_data,
                            loc[p].embeddings))
    ELSE {}

\* every row, committed or not: what a statement would read without
\* transaction isolation
DirtyRows ==
    [docs |-> docs \cup UNION {PendingDocs(p) : p \in Procs},
     chunks |-> chunks \cup UNION {PendingChunks(p) : p \in Procs}]

\* the rows a statement reads: the committed ones
VisibleRows == [docs |-> docs, chunks |-> chunks]

NoConflict(hash) == FALSE

\* UNIQUE on document_hash: a committed row holds the hash
HashConflict(hash) == \E d \in docs : d.document_hash = hash

\* an insert of a hash waits while another open transaction holds an
\* uncommitted row with it
HashLocked(p, hash) ==
    \E q \in Procs \ {p} : \E d \in PendingDocs(q) : d.document_hash = hash

\* UNIQUE(document_id, chunk_index) over the rows of one insert
ChunkIndexConflict(records) ==
    \E i, j \in DOMAIN records :
        i # j /\ records[i].chunk_index = records[j].chunk_index

NoCascade(ids) == {}

\* ON DELETE CASCADE: the chunk rows that go with the documents ids
CascadeChunks(ids) == {c \in chunks : c.document_id \in ids}

\* the store as conn.commit() by caller p leaves it
Commit(p) ==
    [docs |-> docs \cup PendingDocs(p), chunks |-> chunks \cup PendingChunks(p)]

RollbackKeepsRows(p) == Commit(p)

\* the store as conn.rollback() by caller p leaves it
Rollback(p) == [docs |-> docs, chunks |-> chunks]

\* the store after DELETE FROM policy_documents for the ids, committed
DeleteRows(ids) ==
    [docs |-> {d \in docs : d.id \notin ids},
     chunks |-> chunks \ CascadeChunks(ids)]

\* every order in which the database may hand back the rows of S
RECURSIVE RowOrders(_)
RowOrders(S) ==
    IF S = {} THEN {<<>>}
    ELSE UNION {{<<x>> \o rest : rest \in RowOrders(S \ {x})} : x \in S}

\* the SELECT, were its page filter page_number >= min_page
CandidatesPageAtLeast(document_id, min_page) ==
    {c \in VisibleRows.chunks :
        /\ \E d \in VisibleRows.docs : d.id = c.document_id
        /\ (min_page > 0 => c.page_number >= min_page)
        /\ (document_id # 0 => c.document_id = document_id)}

\* the rows the SELECT of search_similar_chunks matches (lines 403-430)
Candidates(document_id, min_page) ==
    {c \in VisibleRows.chunks :
        /\ \E d \in VisibleRows.docs : d.id = c.document_id
        /\ (min_page > 0 => c.page_number > min_page)
        /\ (document_id # 0 => c.document_id = document_id)}

(***************************************************************************)
(* add_policy_document.  `fault` is what the environment does to the step  *)
(* and `fails` whether the embedding model fails.                          *)
(***************************************************************************)
ChunkTexts(chunks_data) == [i \in 1..Len(chunks_data) |-> chunks_data[i].text]

\* lines 299-313: the chunks and the text that is hashed
Prepare(input) ==
    IF input.has_pdf /\ input.text = <<>>
    THEN LET r == process_pdf_bytes(input.pages, ChunkSize, ChunkOverlap)
         IN  [status |-> IF r.diverged THEN "hang"
                         ELSE IF r.chunks = <<>> THEN "no_pdf_text" ELSE "ok",
              chunks_data |-> r.chunks,
              document_text |-> JoinSpace(ChunkTexts(r.chunks))]
    ELSE IF input.text # <<>>
    THEN LET r == chunk_text(input.text, 1, ChunkSize, ChunkOverlap)
         IN  [status |-> IF r.diverged THEN "hang" ELSE "ok",
              chunks_data |-> r.chunks,
              document_text |-> input.text]
    ELSE [status |-> "no_input", chunks_data |-> <<>>, document_text |-> <<>>]

Finished(p, result) ==
    /\ pc' = [pc EXCEPT ![p] = "done"]
    /\ out' = [out EXCEPT ![p] = result]

\* the except clause, were it to return instead of raising
FailedReturns(p, err) ==
    /\ Finished(p, ReturnAfter(err, <<>>))
    /\ docs' = Rollback(p).docs
    /\ chunks' = Rollback(p).chunks

\* the except clause: rollback, then the error goes to the caller
Failed(p, err) ==
    /\ Finished(p, Raise(err))
    /\ docs' = Rollback(p).docs
    /\ chunks' = Rollback(p).chunks

ExistingNever(doc_hash) == {}

\* the SELECT of lines 316-320
Existing(doc_hash) == {d \in VisibleRows.docs : d.document_hash = doc_hash}

\* the lookup, were a duplicate to take over the new document_name
AddLookupRenames(p, chunks_data, doc_hash, fails) ==
    IF Existing(doc_hash) # {}
    THEN /\ \E d \in Existing(doc_hash) :
               Finished(p, Return(<<d.id, d.total_chunks>>))
         /\ loc' = [loc EXCEPT ![p] =
                    [Served(p)[p] EXCEPT
                       !.doc_hash = doc_hash,
                       !.chunks_data = chunks_data,
                       !.chunked = TRUE]]
         /\ docs' = {[d \in docs |->
                        IF d.document_hash = doc_hash
                        THEN [d EXCEPT !.document_name = arg'[p].input.name]
                        ELSE d][x] : x \in docs}
         /\ UNCHANGED chunks
    ELSE /\ loc' = [loc EXCEPT ![p] =
                    [Connected(p) EXCEPT
                       !.doc_hash = doc_hash,
                       !.chunks_data = chunks_data,
                       !.chunked = TRUE,
                       !.embeddings = generate_embeddings_batch(
                           ChunkTexts(chunks_data), fails),
                       !.embed_failed = fails]]
         /\ pc' = [pc EXCEPT ![p] = "add_insert_doc"]
         /\ UNCHANGED <<docs, chunks, out>>

\* lines 315-333: look the hash up; return the existing document or embed
AddLookup(p, chunks_data, doc_hash, fails) ==
    IF Existing(doc_hash) # {}
    THEN /\ \E d \in Existing(doc_hash) :
               Finished(p, Return(<<d.id, d.total_chunks>>))
         /\ loc' = [loc EXCEPT ![p] =
                    [Served(p)[p] EXCEPT
                       !.doc_hash = doc_hash,
                       !.chunks_data = chunks_data,
                       !.chunked = TRUE]]
         /\ UNCHANGED <<docs, chunks>>
    ELSE /\ loc' = [loc EXCEPT ![p] =
                    [Connected(p) EXCEPT
                       !.doc_hash = doc_hash,
                       !.chunks_data = chunks_data,
                       !.chunked = TRUE,
                       !.embeddings = generate_embeddings_batch(
                           ChunkTexts(chunks_data), fails),
                       !.embed_failed = fails]]
         /\ pc' = [pc EXCEPT ![p] = "add_insert_doc"]
         /\ UNCHANGED <<docs, chunks, out>>

\* lines 298-313 with the outcome prep of chunking
AddPrepared(p, prep, fault, fails) ==
    IF prep.status = "hang"
    THEN /\ pc' = [pc EXCEPT ![p] = "hung"]
         /\ loc' = [loc EXCEPT ![p] = [Connected(p) EXCEPT !.chunked = TRUE]]
         /\ UNCHANGED <<docs, chunks, out>>
    ELSE IF prep.status # "ok"
    THEN /\ Failed(p, prep.status)
         /\ loc' = [loc EXCEPT ![p] =
                    [Served(p)[p] EXCEPT !.chunked = prep.status # "no_input"]]
    ELSE IF fault = "db"
    THEN /\ Failed(p, "db")
         /\ loc' = [loc EXCEPT ![p] = [Served(p)[p] EXCEPT !.chunked = TRUE]]
    ELSE AddLookup(p, prep.chunks_data,
                   _compute_document_hash(prep.document_text), fails)

\* lines 295-333: connect, chunk, hash, look the hash up, embed
AddStartCall(p, input, fault, fails) ==
    /\ pc[p] = "idle"
    /\ arg' = [arg EXCEPT ![p] = [NoArg EXCEPT !.op = "add", !.input = input]]
    /\ UNCHANGED nextDocId
    /\ IF fault = "connect"
       THEN /\ Finished(p, Raise("connect"))
            /\ loc' = Opened(p)
            /\ UNCHANGED <<docs, chunks>>
       ELSE AddPrepared(p, Prepare(input), fault, fails)

\* lines 336-343: INSERT INTO policy_documents ... RETURNING id.  The id is
\* drawn from the sequence before the uniqueness check and is not given back.
AddInsertDocCall(p, fault) ==
    /\ pc[p] = "add_insert_doc"
    /\ UNCHANGED arg
    /\ IF fault = "db"
       THEN Failed(p, "db") /\ loc' = Released(p) /\ UNCHANGED nextDocId
       ELSE /\ ~HashLocked(p, loc[p].doc_hash)
            /\ nextDocId <= MaxDocId
            /\ nextDocId' = nextDocId + 1
            /\ IF HashConflict(loc[p].doc_hash)
               THEN Failed(p, "unique_doc") /\ loc' = Released(p)
               ELSE /\ loc' = [loc EXCEPT ![p].document_id = nextDocId]
                    /\ pc' = [pc EXCEPT ![p] = "add_insert_chunks"]
                    /\ UNCHANGED <<docs, chunks, out>>

\* lines 345-373: the batch insert of the chunk rows
AddInsertChunksCall(p, fault) ==
    /\ pc[p] = "add_insert_chunks"
    /\ UNCHANGED <<arg, nextDocId>>
    /\ IF fault = "db"
       THEN Failed(p, "db") /\ loc' = Released(p)
       ELSE IF ChunkIndexConflict(ChunkRecords(loc[p].document_id,
                                               loc[p].chunks_data,
                                               loc[p].embeddings))
       THEN Failed(p, "unique_chunk") /\ loc' = Released(p)
       ELSE /\ pc' = [pc EXCEPT ![p] = "add_commit"]
            /\ UNCHANGED <<docs, chunks, out, loc>>

\* lines 375-378: commit and return
AddCommitCall(p, fault) ==
    /\ pc[p] = "add_commit"
    /\ loc' = Released(p)
    /\ UNCHANGED <<arg, nextDocId>>
    /\ IF fault = "db"
       THEN Failed(p, "db")
       ELSE /\ docs' = Commit(p).docs
            /\ chunks' = Commit(p).chunks
            /\ Finished(p, Return(<<loc[p].document_id,
                                    Len(loc[p].chunks_data)>>))

(***************************************************************************)
(* search_similar_chunks, delete_document, clear_all_documents.  Each      *)
(* runs one statement, so each is one step.                                *)
(***************************************************************************)
\* what the call returns when the rows come back in the order results
SearchResult(results, query, top_k, fails) ==
    RankRows(results, generate_embedding(query, fails), top_k)

SearchCall(p, query, top_k, document_id, min_page, fault, fails) ==
    /\ pc[p] = "idle"
    /\ arg' = [arg EXCEPT ![p] =
                 [NoArg EXCEPT !.op = "search", !.query = query,
                               !.top_k = top_k, !.document_id = document_id,
                               !.min_page = min_page]]
    /\ loc' = IF fault = "connect" THEN Opened(p) ELSE Served(p)
    /\ UNCHANGED <<docs, chunks, nextDocId>>
    /\ IF fault = "connect" THEN Finished(p, Raise("connect"))
       ELSE IF fault = "db" THEN Finished(p, ReturnAfter("db", <<>>))
       ELSE \E results \in RowOrders(Candidates(document_id, min_page)) :
                Finished(p, Return(SearchResult(results, query, top_k, fails)))

DeleteCall(p, document_id, fault) ==
    /\ pc[p] = "idle"
    /\ arg' = [arg EXCEPT ![p] =
                 [NoArg EXCEPT !.op = "delete", !.document_id = document_id]]
    /\ loc' = IF fault = "connect" THEN Opened(p) ELSE Served(p)
    /\ UNCHANGED nextDocId
    /\ IF fault = "connect"
       THEN Finished(p, Raise("connect")) /\ UNCHANGED <<docs, chunks>>
       ELSE IF fault = "db"
       THEN Failed(p, "db")
       ELSE /\ docs' = DeleteRows({document_id}).docs
            /\ chunks' = DeleteRows({document_id}).chunks
            /\ Finished(p, Return(\E d \in docs : d.id = document_id))

ClearCall(p, fault) ==
    /\ pc[p] = "idle"
    /\ arg' = [arg EXCEPT ![p] = [NoArg EXCEPT !.op = "clear"]]
    /\ loc' = IF fault = "connect" THEN Opened(p) ELSE Served(p)
    /\ UNCHANGED nextDocId
    /\ IF fault = "connect"
       THEN Finished(p, Raise("connect")) /\ UNCHANGED <<docs, chunks>>
       ELSE IF fault = "db"
       THEN /\ Finished(p, ReturnAfter("db", FALSE))
            /\ docs' = Rollback(p).docs
            /\ chunks' = Rollback(p).chunks
       ELSE /\ docs' = DeleteRows({d.id : d \in docs}).docs
            /\ chunks' = DeleteRows({d.id : d \in docs}).chunks
            /\ Finished(p, Return(TRUE))

\* the rows of list_documents: ORDER BY upload_date DESC, the latest
\* inserted (highest id) first
RECURSIVE ListRows(_)
ListRows(S) ==
    IF S = {} THEN <<>>
    ELSE LET d == CHOOSE x \in S : \A y \in S : y.id <= x.id
         IN  <<[id |-> d.id, total_chunks |-> d.total_chunks]>>
             \o ListRows(S \ {d})

\* list_documents: a failing statement is swallowed and [] returned
ListCall(p, fault) ==
    /\ pc[p] = "idle"
    /\ arg' = [arg EXCEPT ![p] = [NoArg EXCEPT !.op = "list"]]
    /\ loc' = IF fault = "connect" THEN Opened(p) ELSE Served(p)
    /\ UNCHANGED <<docs, chunks, nextDocId>>
    /\ IF fault = "connect" THEN Finished(p, Raise("connect"))
       ELSE IF fault = "db" THEN Finished(p, ReturnAfter("db", <<>>))
       ELSE Finished(p, Return(ListRows(VisibleRows.docs)))

RECURSIVE SumChunks(_)
SumChunks(S) ==
    IF S = {} THEN 0
    ELSE LET d == CHOOSE x \in S : TRUE
         IN  d.total_chunks + SumChunks(S \ {d})

\* the row of get_document_stats; the average is kept as a fraction
StatsRow(S) ==
    [total_documents |-> Cardinality(S),
     total_chunks |-> SumChunks(S),
     avg_chunks_per_document |->
         IF SumChunks(S) = 0 THEN [num |-> 0, den |-> 1]
         ELSE [num |-> SumChunks(S), den |-> Cardinality(S)]]

\* get_document_stats: no except clause, a failing statement raises
StatsCall(p, fault) ==
    /\ pc[p] = "idle"
    /\ arg' = [arg EXCEPT ![p] = [NoArg EXCEPT !.op = "stats"]]
    /\ loc' = IF fault = "connect" THEN Opened(p) ELSE Served(p)
    /\ UNCHANGED <<docs, chunks, nextDocId>>
    /\ IF fault = "connect" THEN Finished(p, Raise("connect"))
       ELSE IF fault = "db" THEN Finished(p, Raise("db"))
       ELSE Finished(p, Return(StatsRow(VisibleRows.docs)))

\* the caller takes the result; its next call starts from scratch
FinishCall(p) ==
    /\ pc[p] = "done"
    /\ pc' = [pc EXCEPT ![p] = "idle"]
    /\ arg' = [arg EXCEPT ![p] = NoArg]
    /\ loc' = [loc EXCEPT ![p] = NoLoc]
    /\ out' = [out EXCEPT ![p] = NoOut]
    /\ UNCHANGED <<docs, chunks, nextDocId>>

(***************************************************************************)
(* Spec: calls from NumProcs concurrent callers, with failing statements   *)
(* and commits in add_policy_document.                                     *)
(***************************************************************************)
StoreInit ==
    /\ docs = {}
    /\ chunks = {}
    /\ nextDocId = 1
    /\ pc = [p \in Procs |-> "idle"]
    /\ arg = [p \in Procs |-> NoArg]
    /\ loc = [p \in Procs |-> NoLoc]
    /\ out = [p \in Procs |-> NoOut]

Init ==
    /\ StoreInit
    /\ prev = NoPrev
    /\ deleted_ids = {}
    /\ rank = NoRank
    /\ chunking = NoChunking
    /\ validation = NoValidation
    /\ session = NoSession
    /\ ui = NoUi

AddStart(p) ==
    \E input \in RaceInputs :
        AddStartCall(p, input, "none", FALSE) /\ UNCHANGED hist

AddInsertDoc(p) ==
    \E fault \in StatementFaults : AddInsertDocCall(p, fault) /\ UNCHANGED hist

AddInsertChunks(p) ==
    \E fault \in StatementFaults : AddInsertChunksCall(p, fault) /\ UNCHANGED hist

AddCommit(p) ==
    \E fault \in StatementFaults : AddCommitCall(p, fault) /\ UNCHANGED hist

Search(p) ==
    \E document_id \in DocIdArgs :
        SearchCall(p, <<"a">>, 5, document_id, 0, "none", FALSE) /\ UNCHANGED hist

Delete(p) ==
    \E document_id \in DocIdArgs :
        DeleteCall(p, document_id, "none") /\ UNCHANGED hist

Clear(p) == ClearCall(p, "none") /\ UNCHANGED hist

Finish(p) == FinishCall(p) /\ UNCHANGED hist

Next ==
    \E p \in Procs :
        \/ AddStart(p)
        \/ AddInsertDoc(p)
        \/ AddInsertChunks(p)
        \/ AddCommit(p)
        \/ Search(p)
        \/ Delete(p)
        \/ Clear(p)
        \/ Finish(p)

Spec == Init /\ [][Next]_vars

(***************************************************************************)
(* SeqSpec: one caller, one call after another, with every input, every    *)
(* argument and every failure of the environment.                          *)
(***************************************************************************)
Solo == CHOOSE p \in Procs : TRUE

SeqAddStart ==
    \E input \in Inputs, fault \in AllFaults, fails \in BOOLEAN :
        AddStartCall(Solo, input, fault, fails) /\ UNCHANGED hist

SeqAddInsertDoc ==
    \E fault \in StatementFaults :
        AddInsertDocCall(Solo, fault) /\ UNCHANGED hist

SeqAddInsertChunks ==
    \E fault \in StatementFaults :
        AddInsertChunksCall(Solo, fault) /\ UNCHANGED hist

SeqAddCommit ==
    \E fault \in StatementFaults : AddCommitCall(Solo, fault) /\ UNCHANGED hist

SeqSearch ==
    \E query \in Queries, top_k \in TopKArgs, document_id \in DocIdArgs,
       min_page \in MinPageArgs, fault \in AllFaults, fails \in BOOLEAN :
        /\ SearchCall(Solo, query, top_k, document_id, min_page, fault, fails)
        /\ UNCHANGED hist

SeqDelete ==
    \E document_id \in DocIdArgs, fault \in AllFaults :
        /\ DeleteCall(Solo, document_id, fault)
        /\ deleted_ids' = IF out'[Solo] = Return(TRUE)
                          THEN deleted_ids \cup {document_id}
                          ELSE deleted_ids
        /\ UNCHANGED <<prev, rank, chunking, validation, session, ui>>

SeqClear == \E fault \in AllFaults : ClearCall(Solo, fault) /\ UNCHANGED hist

SeqList == \E fault \in AllFaults : ListCall(Solo, fault) /\ UNCHANGED hist

SeqStats == \E fault \in AllFaults : StatsCall(Solo, fault) /\ UNCHANGED hist

SeqFinish ==
    /\ FinishCall(Solo)
    /\ prev' = IF arg[Solo].op = "add" /\ out[Solo].kind = "return"
               THEN [op |-> "add", input |-> arg[Solo].input, out |-> out[Solo],
                     docs |-> docs, nchunks |-> Cardinality(chunks)]
               ELSE NoPrev
    /\ UNCHANGED <<deleted_ids, rank, chunking, validation, session, ui>>

SeqNext ==
    \/ SeqAddStart
    \/ SeqAddInsertDoc
    \/ SeqAddInsertChunks
    \/ SeqAddCommit
    \/ SeqSearch
    \/ SeqDelete
    \/ SeqClear
    \/ SeqList
    \/ SeqStats
    \/ SeqFinish

SeqSpec == Init /\ [][SeqNext]_vars

(***************************************************************************)
(* RankSpec: the ranking of search_similar_chunks applied to drawn rows,   *)
(* query embeddings and top_k values.  rows is what the SELECT returned,   *)
(* in the order it returned it.                                            *)
(***************************************************************************)
TestVectors ==
    {<<0, 0>>, <<1, 0>>, <<0, 1>>, <<1, 1>>, <<2, 2>>, <<-1, 0>>}

RowSeq(embeddings) ==
    [i \in 1..Len(embeddings) |->
        [document_id |-> 1, chunk_index |-> i - 1, chunk_text |-> <<"a">>,
         page_number |-> 1, embedding |-> embeddings[i]]]

RankRowSeqs ==
    {RowSeq(e) : e \in UNION {[1..n -> TestVectors] : n \in 0..MaxRows}}

RankTopKs == (0 - MaxRows - 1)..(MaxRows + 1)

RankInit ==
    /\ StoreInit
    /\ prev = NoPrev
    /\ deleted_ids = {}
    /\ chunking = NoChunking
    /\ validation = NoValidation
    /\ session = NoSession
    /\ ui = NoUi
    /\ rank \in {[rows |-> r, query |-> q, top_k |-> k, called |-> FALSE,
                  ret |-> <<>>] :
                    r \in RankRowSeqs, q \in TestVectors, k \in RankTopKs}

RankCall ==
    /\ ~rank.called
    /\ rank' = [rank EXCEPT !.called = TRUE,
                            !.ret = RankRows(rank.rows, rank.query, rank.top_k)]
    /\ UNCHANGED <<docs, chunks, nextDocId, pc, arg, loc, out, prev, deleted_ids,
                   chunking, validation, session, ui>>

RankNext == RankCall

RankSpec == RankInit /\ [][RankNext]_vars

(***************************************************************************)
(* ChunkSpec: one PDFProcessor built with a drawn chunk_size and           *)
(* chunk_overlap, then one chunk_text call on a drawn text.  A call that   *)
(* never returns leaves returned FALSE; starts then ends with the value of *)
(* `start` that came back.                                                 *)
(***************************************************************************)
TextsUpTo(n) == UNION {[1..k -> {"a", ".", " "}] : k \in 0..n}

ChunkInit ==
    /\ StoreInit
    /\ prev = NoPrev
    /\ deleted_ids = {}
    /\ rank = NoRank
    /\ validation = NoValidation
    /\ session = NoSession
    /\ ui = NoUi
    /\ chunking \in {[NoChunking EXCEPT !.text = t, !.chunk_size = size,
                                        !.chunk_overlap = overlap] :
                        t \in TextsUpTo(MaxTextLen), size \in 1..MaxChunkSize,
                        overlap \in 0..MaxChunkSize}

\* PDFProcessor(chunk_size, chunk_overlap)
Construct ==
    /\ ~chunking.constructed
    /\ chunking' = [chunking EXCEPT
                      !.constructed = TRUE,
                      !.self = PDFProcessor_init(chunking.chunk_size,
                                                 chunking.chunk_overlap)]
    /\ UNCHANGED <<docs, chunks, nextDocId, pc, arg, loc, out, prev, deleted_ids,
                   rank, validation, session, ui>>

\* the record of self.chunk_text(text) given its outcome r
Chunked(r, starts) ==
    [chunking EXCEPT !.called = TRUE, !.returned = ~r.diverged,
                     !.chunks = r.chunks, !.starts = starts]

\* self.chunk_text(text)
ChunkCall ==
    /\ chunking.constructed /\ ~chunking.self.rejected
    /\ ~chunking.called
    /\ chunking' = [Chunked(chunk_text(chunking.text, 1,
                                       chunking.self.chunk_size,
                                       chunking.self.chunk_overlap),
                            WindowStarts(NormalizeText(chunking.text),
                                         chunking.self.chunk_size,
                                         chunking.self.chunk_overlap, 0, {}))
                       EXCEPT !.windows =
                           Windows(NormalizeText(chunking.text),
                                   chunking.self.chunk_size,
                                   chunking.self.chunk_overlap, 0, {})]
    /\ UNCHANGED <<docs, chunks, nextDocId, pc, arg, loc, out, prev, deleted_ids,
                   rank, validation, session, ui>>

ChunkNext == Construct \/ ChunkCall

ChunkSpec == ChunkInit /\ [][ChunkNext]_vars

(***************************************************************************)
(* ValidateSpec: one validate_documents call on a drawn pair of records.   *)
(***************************************************************************)
ValidateInit ==
    /\ StoreInit
    /\ prev = NoPrev
    /\ deleted_ids = {}
    /\ rank = NoRank
    /\ chunking = NoChunking
    /\ session = NoSession
    /\ ui = NoUi
    /\ validation \in {[NoValidation EXCEPT !.policy_json = p,
                                            !.claim_json = c] :
                          p \in PolicyRecords, c \in ClaimRecords}

\* validate_documents(policy_json, claim_json)
ValidateCall ==
    /\ ~validation.called
    /\ validation' = [validation EXCEPT
                        !.called = TRUE,
                        !.results = validate_documents(validation.policy_json,
                                                       validation.claim_json)]
    /\ UNCHANGED <<docs, chunks, nextDocId, pc, arg, loc, out, prev, deleted_ids,
                   rank, chunking, session, ui>>

ValidateSpec == ValidateInit /\ [][ValidateCall]_vars

(***************************************************************************)
(* AppSpec: one browser session of the Streamlit script.  Every            *)
(* interaction reruns the script with at most one button pressed, so every *)
(* button is one action; the analysis button runs add_policy_document      *)
(* statement by statement as the session's caller Solo.  rag_system is     *)
(* initialised.                                                            *)
(***************************************************************************)
\* "Extract Policy Wording Text" (lines 642-657)
AppExtractWording ==
    \E wording_text \in WordingTexts :
        /\ ui.stage = "idle" /\ pc[Solo] = "idle"
        /\ session' = IF wording_text # <<>>
                      THEN [session EXCEPT !.policy_wording_text = wording_text]
                      ELSE session
        /\ UNCHANGED <<docs, chunks, nextDocId, pc, arg, loc, out, prev,
                       deleted_ids, rank, chunking, validation, ui>>

\* "Extract Information from Both Documents" (lines 662-736): a record that
\* could not be extracted leaves the session's record as it was
AppExtractBoth ==
    \E policy_json \in AppPolicies \cup {None},
       claim_json \in AppClaims \cup {None} :
        /\ ui.stage = "idle" /\ pc[Solo] = "idle"
        /\ session' = [session EXCEPT
                         !.policy_json =
                             IF policy_json # None THEN policy_json ELSE @,
                         !.claim_json =
                             IF claim_json # None THEN claim_json ELSE @]
        /\ UNCHANGED <<docs, chunks, nextDocId, pc, arg, loc, out, prev,
                       deleted_ids, rank, chunking, validation, ui>>

\* "Validate Policy & Claim Match" (lines 742-759)
AppValidate ==
    /\ ui.stage = "idle" /\ pc[Solo] = "idle"
    /\ session.policy_json # None /\ session.claim_json # None
    /\ session' = [session EXCEPT
                     !.validation_passed =
                         validate_documents(session.policy_json,
                                            session.claim_json).overall_status
                         = "PASS"]
    /\ ui' = [ui EXCEPT
                !.validated =
                    [policy_json |-> session.policy_json,
                     claim_json |-> session.claim_json,
                     results |-> validate_documents(session.policy_json,
                                                    session.claim_json)]]
    /\ UNCHANGED <<docs, chunks, nextDocId, pc, arg, loc, out, prev,
                   deleted_ids, rank, chunking, validation>>

\* the condition under which the analysis section is not locked
\* (lines 767-768)
Unlocked ==
    /\ session.validation_passed
    /\ session.policy_wording_text # <<>>
    /\ session.claim_json # None

\* "Analyze Claim Against Policy Wording (RAG)" (lines 771-778) up to the
\* first statement of add_policy_document (rag.py lines 616-633)
AppAnalyzeStart ==
    \E fault \in AllFaults, fails \in BOOLEAN :
        /\ ui.stage = "idle" /\ pc[Solo] = "idle"
        /\ Unlocked
        /\ UNCHANGED <<prev, deleted_ids, rank, chunking, validation, session>>
        /\ IF Len(Strip(session.policy_wording_text)) < MinWordingLen
           THEN /\ ui' = [ui EXCEPT !.analysis =
                            [NoUi.analysis EXCEPT !.outcome = "failed"]]
                /\ UNCHANGED <<docs, chunks, nextDocId, pc, arg, loc, out>>
           ELSE /\ AddStartCall(Solo,
                                [TextInput(session.policy_wording_text)
                                    EXCEPT !.name = "Current Policy Wording"],
                                fault, fails)
                /\ ui' = [ui EXCEPT !.stage = "analyzing",
                                    !.analysis = NoUi.analysis]

\* whether analyze_claim_with_rag returns an analysis (rag.py lines
\* 634-692), given what add_policy_document did, the rows the search
\* returned and the answer of the language model: an error, a JSON object
\* that is empty, or a JSON object with the analysis
Analysed(added, incident_desc, context, gemini) ==
    /\ added.kind = "return"
    /\ incident_desc # <<>>
    /\ context # <<>>
    /\ gemini = "answer"

\* get_context_for_query (rag.py lines 475-500) as far as its emptiness
\* goes: no text when the search failed or found no row
get_context_for_query(results, query, top_k, fault, fails) ==
    IF fault # "none" THEN <<>> ELSE SearchResult(results, query, top_k, fails)

\* the session after the analysis returned analysis_result (lines 780-795);
\* listing is what list_documents returned, <<>> also when it raised
AfterAnalysis(analysis_result, listing) ==
    IF ~analysis_result THEN session
    ELSE IF listing = <<>> THEN [session EXCEPT !.rag_analysis = TRUE]
    ELSE [session EXCEPT !.rag_analysis = TRUE, !.doc_id = listing[1].id,
                         !.show_chatbot = TRUE]

\* the rest of the analysis handler once add_policy_document has ended
\* (rag.py lines 634-692, then lines 780-795)
AppAnalyzeFinish ==
    \E search_fault \in StatementFaults,
       gemini \in {"error", "empty", "answer"},
       list_fault \in AllFaults, fails \in BOOLEAN :
      \E results \in RowOrders(Candidates(
                        IF out[Solo].kind = "return" THEN out[Solo].value[1]
                        ELSE 0, 0)) :
        /\ ui.stage = "analyzing"
        /\ FinishCall(Solo)
        /\ session' =
             AfterAnalysis(
               Analysed(out[Solo], session.claim_json.incident_description,
                        get_context_for_query(
                            results, session.claim_json.incident_description,
                            5, search_fault, fails),
                        gemini),
               IF list_fault = "none" THEN ListRows(VisibleRows.docs) ELSE <<>>)
        /\ ui' = [ui EXCEPT
                    !.stage = "idle",
                    !.analysis =
                        [outcome |->
                             IF Analysed(out[Solo],
                                  session.claim_json.incident_description,
                                  get_context_for_query(
                                      results,
                                      session.claim_json.incident_description,
                                      5, search_fault, fails),
                                  gemini)
                             THEN "ok" ELSE "failed",
                         returned |-> IF out[Solo].kind = "return"
                                      THEN out[Solo].value[1] ELSE 0,
                         listed |-> list_fault = "none"]]
        /\ UNCHANGED <<prev, deleted_ids, rank, chunking, validation>>

\* a question sent to the chatbot (lines 798-803, rag.py lines 798-811):
\* the search is scoped to the session's doc_id
AppChat ==
    /\ ui.stage = "idle" /\ pc[Solo] = "idle"
    /\ Unlocked
    /\ session.show_chatbot /\ session.doc_id # 0
    /\ ui' = [ui EXCEPT !.chat =
                [document_id |-> session.doc_id,
                 sources |-> {c.document_id :
                                 c \in Candidates(session.doc_id, 0)}]]
    /\ UNCHANGED <<docs, chunks, nextDocId, pc, arg, loc, out, prev,
                   deleted_ids, rank, chunking, validation, session>>

\* the Delete button of a stored document in the sidebar (lines 584-593)
AppDelete ==
    \E d \in docs :
        /\ ui.stage = "idle" /\ pc[Solo] = "idle"
        /\ docs' = DeleteRows({d.id}).docs
        /\ chunks' = DeleteRows({d.id}).chunks
        /\ UNCHANGED <<nextDocId, pc, arg, loc, out, prev, deleted_ids, rank,
                       chunking, validation, session, ui>>

AppNext ==
    \/ AppExtractWording
    \/ AppExtractBoth
    \/ AppValidate
    \/ AppAnalyzeStart
    \/ ui.stage = "analyzing" /\ SeqAddInsertDoc
    \/ ui.stage = "analyzing" /\ SeqAddInsertChunks
    \/ ui.stage = "analyzing" /\ SeqAddCommit
    \/ AppAnalyzeFinish
    \/ AppChat
    \/ AppDelete

AppSpec == Init /\ [][AppNext]_vars

(***************************************************************************)
(* Properties.                                                             *)
(***************************************************************************)
DoneAdd(p) == pc[p] = "done" /\ arg[p].op = "add"

DoneSearch(p) == pc[p] = "done" /\ arg[p].op = "search"

\* C1 (SeqSpec): idempotent ingestion.  When add_policy_document has
\* returned and the next call is add_policy_document with the same input,
\* then, unless the connection or the lookup itself fails, the second call
\* returns, with the same (document_id, chunk_count), and leaves the set of
\* Document rows and the number of Chunk rows as the first call left them.
C1_IdempotentIngestion ==
    \A p \in Procs :
        (/\ DoneAdd(p)
         /\ prev.op = "add"
         /\ prev.input = arg[p].input
         /\ out[p].err \notin EnvFaults)
        => /\ out[p].kind = "return"
           /\ out[p].value = prev.out.value
           /\ docs = prev.docs
           /\ Cardinality(chunks) = prev.nchunks

C1_Witness ==
    \E p \in Procs :
        /\ DoneAdd(p)
        /\ prev.op = "add"
        /\ prev.input = arg[p].input
        /\ ~arg[p].input.has_pdf
        /\ out[p].kind = "return"
        /\ out[p].value[2] > 1
        /\ Cardinality(chunks) > 1

\* C2 (Spec): at most one Document row per content hash.  Under every
\* interleaving, no two policy_documents rows, committed or inserted by an
\* open transaction, hold the same document_hash: of the inserts racing for
\* a hash at most one holds a row at any time, so at most one commits.
C2_UniqueHash ==
    \A d1, d2 \in DirtyRows.docs :
        d1.document_hash = d2.document_hash => d1 = d2

C2_Witness ==
    \E p, q \in Procs :
        /\ p # q
        /\ DoneAdd(p) /\ DoneAdd(q)
        /\ arg[p].input = arg[q].input
        /\ out[p].kind = "return"
        /\ out[q].err = "unique_doc"
        /\ \E d \in docs : d.id = out[p].value[1]

\* C3 (Spec), as claimed: two add_policy_document calls with the same text
\* that are both over, neither of them failed by the environment, have both
\* returned, and returned the same document_id.
C3_RaceBothReturn ==
    \A p, q \in Procs :
        (/\ p # q
         /\ DoneAdd(p) /\ DoneAdd(q)
         /\ arg[p].input = arg[q].input
         /\ ~arg[p].input.has_pdf
         /\ out[p].err \notin EnvFaults /\ out[q].err \notin EnvFaults)
        => /\ out[p].kind = "return"
           /\ out[q].kind = "return"
           /\ out[p].value[1] = out[q].value[1]

\* every Document row has exactly total_chunks Chunk rows, and every Chunk
\* row has its Document row
StoreWhole ==
    /\ \A d \in docs :
          Cardinality({c \in chunks : c.document_id = d.id}) = d.total_chunks
    /\ \A c \in chunks : \E d \in docs : d.id = c.document_id

\* C4 (SeqSpec), as claimed: a call whose embedding generation failed has
\* raised (as a call whose inserts or commit failed has).
C4_EmbeddingFailureRaises ==
    \A p \in Procs :
        (DoneAdd(p) /\ loc[p].embed_failed) => out[p].kind = "raise"

\* a step of add_policy_document changes the store only when the call
\* returns with it
AddChangesOnlyOnReturn ==
    \A p \in Procs :
        (arg'[p].op = "add" /\ ~(pc'[p] = "done" /\ out'[p].kind = "return"))
        => (docs' = docs /\ chunks' = chunks)

\* C4 (SeqSpec), amended: atomic ingestion.  If the Document insert, the
\* Chunk insert or the commit fails, the call raises and the store holds
\* exactly the rows it held before the call: no row of the failed call is
\* in the store, and no step of a call that does not return changes it.  No
\* Document row without its full set of chunks and no Chunk row without its
\* Document ever persists.  A failure of embedding generation does not fail
\* the call: every chunk gets the zero vector and the call goes on.
C4_AtomicIngestion ==
    /\ [](/\ StoreWhole
          /\ \A p \in Procs :
                (DoneAdd(p) /\ out[p].kind = "raise")
                => /\ \A d \in docs : d.id # loc[p].document_id
                   /\ \A c \in chunks : c.document_id # loc[p].document_id
          /\ \A p \in Procs :
                (arg[p].op = "add" /\ loc[p].embed_failed)
                => /\ Len(loc[p].embeddings) = Len(loc[p].chunks_data)
                   /\ \A i \in DOMAIN loc[p].embeddings :
                         loc[p].embeddings[i] = ZeroVector
                   /\ (pc[p] = "done" /\ out[p].kind = "raise")
                      => out[p].err \in {"db", "unique_doc", "unique_chunk"})
    /\ [][AddChangesOnlyOnReturn]_vars

C4_Witness ==
    \E p \in Procs :
        /\ DoneAdd(p)
        /\ out[p].kind = "raise"
        /\ out[p].err \in {"db", "unique_chunk"}
        /\ loc[p].document_id # 0
        /\ docs # {}

\* the rows of a search result belong to Documents that are committed with
\* all their chunks in the state the search reads
ResultWhole(result) ==
    \A i \in DOMAIN result :
        \E d \in docs :
            /\ d.id = result[i].document_id
            /\ Cardinality({c \in chunks : c.document_id = d.id})
                   = d.total_chunks
            /\ \E c \in chunks :
                  /\ c.document_id = d.id
                  /\ c.chunk_index = result[i].chunk_index

\* C5 (Spec): no partial Document is visible to search.  Under every
\* interleaving with add_policy_document calls in progress, every chunk a
\* search_similar_chunks call returns is a committed row of a Document
\* whose row and all of whose total_chunks chunk rows are committed when
\* the search reads.
C5_NoPartialDocumentVisible ==
    [][\A p \in Procs :
          (pc[p] = "idle" /\ arg'[p].op = "search" /\ out'[p].kind = "return")
          => ResultWhole(out'[p].value)]_vars

C5_Witness ==
    \E p, q \in Procs :
        /\ DoneSearch(p)
        /\ out[p].value # <<>>
        /\ pc[q] = "add_commit"
        /\ \A i \in DOMAIN out[p].value :
              out[p].value[i].document_id # loc[q].document_id

\* C6 (SeqSpec): cascade delete.  Once delete_document(id) has removed a
\* row, no Chunk row with that document_id is in the store and a search
\* scoped to document_id = id returns the empty sequence; and in every
\* state every Chunk row's document_id is the id of a Document row.
C6_CascadeDelete ==
    /\ \A c \in chunks : \E d \in docs : d.id = c.document_id
    /\ \A id \in deleted_ids :
          /\ \A c \in chunks : c.document_id # id
          /\ \A p \in Procs :
                (DoneSearch(p) /\ arg[p].document_id = id)
                => (out[p].kind = "return" => out[p].value = <<>>)

C6_Witness ==
    \E p \in Procs :
        /\ DoneSearch(p)
        /\ arg[p].document_id \in deleted_ids
        /\ out[p] = Return(<<>>)
        /\ chunks # {}

(***************************************************************************)
(* Properties of the ranking, under RankSpec.                              *)
(***************************************************************************)
ScoreEqual(a, b) == ~ScoreLess(a, b) /\ ~ScoreLess(b, a)

\* the embedding stored with a returned chunk (rows carry their position
\* in the fetched order as chunk_index)
StoredEmbedding(r) == rank.rows[r.chunk_index + 1].embedding

Embeddings(rows) == [i \in 1..Len(rows) |-> rows[i].embedding]

ChunkIndexes(rows) == [i \in 1..Len(rows) |-> rows[i].chunk_index]

\* C7 (RankSpec): search ordering.  The returned sequence is in
\* non-increasing order of similarity_score, results of equal score are in
\* the order the store returned their rows, and for the stored embeddings
\* [1,0], [0,1], [1,1] with query [1,0] and top_k = 2 the result is the
\* [1,0] chunk (score 1.0) and then the [1,1] chunk.
C7_SearchOrdering ==
    rank.called =>
        /\ \A i, j \in DOMAIN rank.ret :
              i < j =>
                /\ ~ScoreLess(rank.ret[i].similarity_score,
                              rank.ret[j].similarity_score)
                /\ ScoreEqual(rank.ret[i].similarity_score,
                              rank.ret[j].similarity_score)
                   => rank.ret[i].chunk_index < rank.ret[j].chunk_index
        /\ (/\ Embeddings(rank.rows) = <<<<1, 0>>, <<0, 1>>, <<1, 1>>>>
            /\ rank.query = <<1, 0>>
            /\ rank.top_k = 2)
           => /\ ChunkIndexes(rank.ret) = <<0, 2>>
              /\ rank.ret[1].similarity_score.num
                    = rank.ret[1].similarity_score.den
              /\ 2 * rank.ret[2].similarity_score.num
                    = rank.ret[2].similarity_score.den

C7_Witness ==
    /\ rank.called
    /\ Embeddings(rank.rows) = <<<<1, 1>>, <<0, 1>>, <<2, 2>>>>
    /\ rank.query = <<1, 0>>
    /\ rank.top_k = 2
    /\ ChunkIndexes(rank.ret) = <<0, 2>>

\* C8 (RankSpec): top_k clamp.  For top_k >= 1 and n candidate rows the
\* result has exactly min(top_k, n) entries, they are distinct candidates,
\* and no candidate left out scores higher than one returned; with n = 0
\* the result is empty.
C8_TopKClamp ==
    (rank.called /\ rank.top_k >= 1) =>
        /\ Len(rank.ret) = Min(rank.top_k, Len(rank.rows))
        /\ \A i, j \in DOMAIN rank.ret :
              i # j => rank.ret[i].chunk_index # rank.ret[j].chunk_index
        /\ \A i \in DOMAIN rank.ret :
              /\ rank.ret[i].chunk_index \in 0..(Len(rank.rows) - 1)
              /\ rank.ret[i].similarity_score
                    = Similarity(rank.query, StoredEmbedding(rank.ret[i]))
        /\ \A k \in DOMAIN rank.rows :
              (\A i \in DOMAIN rank.ret : rank.ret[i].chunk_index # k - 1)
              => \A i \in DOMAIN rank.ret :
                    ~ScoreLess(rank.ret[i].similarity_score,
                               Similarity(rank.query, rank.rows[k].embedding))

C8_Witness ==
    /\ rank.called
    /\ Len(rank.rows) = MaxRows
    /\ rank.top_k = MaxRows + 1
    /\ Len(rank.ret) = MaxRows

\* C9 (RankSpec), as claimed: a search with top_k <= 0 returns no chunk.
C9_NonPositiveTopKEmpty ==
    (rank.called /\ rank.top_k <= 0) => rank.ret = <<>>

\* C10 (RankSpec): zero-vector safety.  A returned chunk whose stored
\* embedding, or whose query embedding, has zero norm has the score 0, and
\* every score comes from a division by a positive product of norms.
C10_ZeroVectorSafety ==
    rank.called =>
        \A i \in DOMAIN rank.ret :
            /\ rank.ret[i].similarity_score.den > 0
            /\ (NormSq(StoredEmbedding(rank.ret[i])) = 0
                \/ NormSq(rank.query) = 0)
               => rank.ret[i].similarity_score = [num |-> 0, den |-> 1]

C10_Witness ==
    /\ rank.called
    /\ rank.query = <<1, 1>>
    /\ \E i \in DOMAIN rank.ret :
          /\ StoredEmbedding(rank.ret[i]) = ZeroVector
          /\ rank.ret[i].similarity_score.num = 0
    /\ \E i \in DOMAIN rank.ret : rank.ret[i].similarity_score.num > 0

(***************************************************************************)
(* Properties of the chunker, under ChunkSpec.                             *)
(***************************************************************************)
ValidConfig ==
    /\ 0 <= chunking.self.chunk_overlap
    /\ chunking.self.chunk_overlap < chunking.self.chunk_size

\* C12 (ChunkSpec), as claimed: with 0 <= chunk_overlap < chunk_size every
\* chunk_text call returns, and the window starts are never negative and
\* strictly increasing.
C12_ChunkerTerminates ==
    (chunking.called /\ ValidConfig) =>
        /\ chunking.returned
        /\ \A i \in DOMAIN chunking.starts : chunking.starts[i] >= 0
        /\ \A i, j \in DOMAIN chunking.starts :
              i < j => chunking.starts[i] < chunking.starts[j]

\* C13 (ChunkSpec), as claimed: a PDFProcessor built with chunk_overlap >=
\* chunk_size is rejected, and no chunk_text call runs with such a
\* configuration.
C13_ConfigGuard ==
    /\ (chunking.constructed /\ chunking.chunk_overlap >= chunking.chunk_size)
       => chunking.self.rejected
    /\ chunking.called => chunking.self.chunk_overlap < chunking.self.chunk_size

\* C14 (ChunkSpec): dense chunk indices.  In every list chunk_text returns
\* no chunk's text is empty or blank, and the chunk_index values are
\* 0, 1, ..., n-1 in list order.
C14_DenseChunkIndexes ==
    (chunking.called /\ chunking.returned) =>
        \A i \in DOMAIN chunking.chunks :
            /\ Strip(chunking.chunks[i].text) # <<>>
            /\ chunking.chunks[i].chunk_index = i - 1

C14_Witness ==
    /\ chunking.called /\ chunking.returned
    /\ Len(chunking.chunks) >= 2
    /\ Len(chunking.starts) > Len(chunking.chunks)

\* position i (0-based) of the normalized text lies in the span of a chunk
InSomeSpan(i) ==
    \E k \in DOMAIN chunking.chunks :
        /\ chunking.chunks[k].start_char <= i
        /\ i < chunking.chunks[k].end_char

FilteredChunks(document_id, min_page) ==
    {c \in chunks :
        /\ c.page_number > min_page
        /\ (document_id # 0 => c.document_id = document_id)}

C15_ChunkIndexesDistinct ==
    \A p \in Procs :
        arg[p].op = "add" =>
            /\ \A i, j \in DOMAIN loc[p].chunks_data :
                  i # j => loc[p].chunks_data[i].chunk_index
                              # loc[p].chunks_data[j].chunk_index
            /\ pc[p] = "done" => out[p].err # "unique_chunk"

\* C17 (SeqSpec), as claimed: every Document row has total_chunks >= 1, and
\* an add_policy_document call that returns returns a chunk count >= 1.
C17_NoEmptyDocument ==
    /\ \A d \in docs : d.total_chunks >= 1
    /\ \A p \in Procs :
          (DoneAdd(p) /\ out[p].kind = "return") => out[p].value[2] >= 1

\* the committed chunk rows of document id
ChunksOf(id) == {c \in chunks : c.document_id = id}

\* C18 (SeqSpec): degraded embedding.  A call whose embedding generation
\* failed is not failed by it: if it raises, an insert or the commit
\* failed; if it returns, its document is committed with one chunk row per
\* chunk, each with the zero vector.  In every state every chunk row has an
\* embedding of embedding_dim components and every Document has
\* total_chunks chunk rows.
C18_DegradedEmbedding ==
    /\ \A c \in chunks : Len(c.embedding) = embedding_dim
    /\ \A d \in docs : Cardinality(ChunksOf(d.id)) = d.total_chunks
    /\ \A p \in Procs :
          (DoneAdd(p) /\ loc[p].embed_failed) =>
              /\ out[p].kind = "raise"
                 => out[p].err \in {"db", "unique_doc", "unique_chunk"}
              /\ out[p].kind = "return"
                 => /\ \E d \in docs : d.id = loc[p].document_id
                    /\ Cardinality(ChunksOf(loc[p].document_id))
                          = Len(loc[p].chunks_data)
                    /\ \A c \in ChunksOf(loc[p].document_id) :
                          c.embedding = ZeroVector

C18_Witness ==
    \E p \in Procs :
        /\ DoneAdd(p) /\ loc[p].embed_failed
        /\ out[p].kind = "return"
        /\ Len(loc[p].chunks_data) >= 2
        /\ \A c \in ChunksOf(loc[p].document_id) : c.embedding = ZeroVector
        /\ Cardinality(ChunksOf(loc[p].document_id)) >= 2

\* C19 (SeqSpec), as claimed: an add_policy_document call that returns the
\* id of a document found by its hash has run neither the chunker nor the
\* embedding provider.
C19_LookupBeforeChunking ==
    \A p \in Procs :
        (DoneAdd(p) /\ out[p].kind = "return" /\ loc[p].document_id = 0)
        => /\ ~loc[p].chunked
           /\ loc[p].embeddings = <<>>

\* C20 (SeqSpec): connectivity failure.  A call of any store operation
\* whose connection cannot be opened ends in that step by raising to its
\* caller, after exactly one connection attempt, and leaves the store as
\* it was; and no call makes more than one attempt.
C20_ConnectivityFailure ==
    /\ [](\A p \in Procs : pc[p] # "idle" => loc[p].connections = 1)
    /\ [][\A p \in Procs :
            (pc[p] = "idle" /\ pc'[p] = "done" /\ out'[p].err = "connect")
            => /\ arg'[p].op \in {"add", "search", "delete", "clear", "list",
                                  "stats"}
               /\ out'[p].kind = "raise"
               /\ loc'[p].connections = 1
               /\ docs' = docs /\ chunks' = chunks]_vars

C20_Witness ==
    \E p \in Procs :
        /\ pc[p] = "done"
        /\ arg[p].op = "list"
        /\ out[p] = Raise("connect")
        /\ loc[p].connections = 1
        /\ docs # {}

\* C21 (SeqSpec), as claimed: a get_document_stats or list_documents call
\* whose query failed has returned its default, zero counts or the empty
\* list.
C21_ReadPathDegrades ==
    \A p \in Procs :
        (pc[p] = "done" /\ arg[p].op \in {"list", "stats"} /\ out[p].err = "db")
        => /\ out[p].kind = "return"
           /\ out[p].value = IF arg[p].op = "list" THEN <<>> ELSE StatsRow({})

\* C22 (SeqSpec): write failures are never reported as success.  The step
\* in which an add_policy_document, delete_document or clear_all_documents
\* call ends on a failure gives the caller an error (it raises, or
\* clear_all_documents returns False) and leaves the Document and Chunk
\* rows as they were; and no step of such a call changes those rows unless
\* the call returns with it.
C22_WriteFailureIsError ==
    [][\A p \in Procs :
          /\ (/\ arg'[p].op \in {"add", "delete", "clear"}
              /\ pc[p] # "done" /\ pc'[p] = "done"
              /\ out'[p].err # "none")
             => /\ \/ out'[p].kind = "raise"
                   \/ (arg'[p].op = "clear" /\ out'[p].kind = "return"
                       /\ out'[p].value = FALSE)
                /\ docs' = docs
                /\ chunks' = chunks
          /\ (/\ arg'[p].op \in {"add", "delete", "clear"}
              /\ ~(pc'[p] = "done" /\ out'[p].kind = "return"))
             => (docs' = docs /\ chunks' = chunks)]_vars

C22_Witness ==
    \E p \in Procs :
        /\ pc[p] = "done"
        /\ arg[p].op = "clear"
        /\ out[p] = ReturnAfter("db", FALSE)
        /\ chunks # {}

\* C26 (SeqSpec): chunk_count consistency.  Every Document's total_chunks
\* is the number of Chunk rows with its id, every Chunk row belongs to a
\* Document, and the total_documents and total_chunks get_document_stats
\* returns are the numbers of Document and of Chunk rows in the store.
C26_ChunkCountConsistent ==
    /\ \A d \in docs : d.total_chunks = Cardinality(ChunksOf(d.id))
    /\ \A c \in chunks : \E d \in docs : d.id = c.document_id
    /\ \A p \in Procs :
          (pc[p] = "done" /\ arg[p].op = "stats" /\ out[p].kind = "return")
          => /\ out[p].value.total_documents = Cardinality(docs)
             /\ out[p].value.total_chunks = Cardinality(chunks)

C26_Witness ==
    \E p \in Procs :
        /\ pc[p] = "done" /\ arg[p].op = "stats" /\ out[p].kind = "return"
        /\ out[p].value.total_documents = 2
        /\ out[p].value.total_chunks >= 3

\* C25 (SeqSpec): no update path.  In every step, a Document row whose id
\* is still in the store is there with every field as before, and so are
\* its Chunk rows; the rows of an id that is gone are all gone.
C25_NoUpdatePath ==
    [][\A d \in docs :
          IF \E e \in docs' : e.id = d.id
          THEN /\ d \in docs'
               /\ \A e \in docs' : e.id = d.id => e = d
               /\ {c \in chunks' : c.document_id = d.id} = ChunksOf(d.id)
          ELSE {c \in chunks' : c.document_id = d.id} = {}]_vars

C25_Witness ==
    \E p \in Procs :
        /\ DoneAdd(p) /\ out[p].kind = "return"
        /\ arg[p].input.name = "n2"
        /\ loc[p].document_id = 0
        /\ \E d \in docs :
              /\ d.id = out[p].value[1]
              /\ d.document_name = "n1"
              /\ ChunksOf(d.id) # {}

\* the calls that have got their connection and have not ended
InProgress(p) == pc[p] \in {"add_insert_doc", "add_insert_chunks", "add_commit", "hung"}

\* C27 (Spec): connection release.  A caller whose call has ended, by a
\* return, by the return of an existing document or by an error, or who
\* has no call, holds no open connection; a call in progress holds exactly
\* one, the one it opened itself; so the open connections are as many as
\* the calls in progress.
C27_ConnectionRelease ==
    \A p \in Procs :
        /\ pc[p] \in {"idle", "done"} => loc[p].open = 0
        /\ InProgress(p) => (loc[p].open = 1 /\ loc[p].connections = 1)
        /\ loc[p].open <= loc[p].connections

C27_Witness ==
    \E p, q \in Procs :
        /\ p # q
        /\ DoneAdd(p) /\ out[p].err = "db"
        /\ loc[p].connections = 1 /\ loc[p].open = 0
        /\ pc[q] = "add_commit" /\ loc[q].open = 1

(***************************************************************************)
(* Properties of the chunker, continued (ChunkSpec).                       *)
(***************************************************************************)
\* the positions of text in [start, end) that hold a sentence terminator
Terminators(text, start, end) ==
    {i \in Max(start, 0)..(Min(end, Len(text)) - 1) :
        text[i + 1] \in {".", "!", "?"}}

\* the window end the sentence-boundary rule gives the window at start
RuleEnd(text, start, size) ==
    LET found == Terminators(text, start, start + size)
    IN  IF start + size < Len(text) /\ \E i \in found : i > start
        THEN 1 + CHOOSE i \in found : \A j \in found : j <= i
        ELSE start + size

\* C24 (ChunkSpec), as claimed: under a configuration with chunk_overlap <
\* chunk_size, every window of a chunk_text call ends where the
\* sentence-boundary rule puts its end, has start < end and slices a
\* non-empty text.
C24_SentenceBoundaryRule ==
    (chunking.called /\ ValidConfig) =>
        \A k \in DOMAIN chunking.windows :
            /\ chunking.windows[k].end =
                  RuleEnd(NormalizeText(chunking.text),
                          chunking.windows[k].start, chunking.self.chunk_size)
            /\ chunking.windows[k].start < chunking.windows[k].end
            /\ chunking.windows[k].text # <<>>

\* C28 (ChunkSpec), as claimed: under a configuration with chunk_overlap <
\* chunk_size, every chunk chunk_text returns has 0 <= start_char <
\* end_char <= length of the normalized text, spans at most chunk_size
\* positions and has as text the trimmed text of its span.
C28_SpanValidity ==
    (chunking.called /\ chunking.returned /\ ValidConfig) =>
        \A k \in DOMAIN chunking.chunks :
            /\ 0 <= chunking.chunks[k].start_char
            /\ chunking.chunks[k].start_char < chunking.chunks[k].end_char
            /\ chunking.chunks[k].end_char <= Len(NormalizeText(chunking.text))
            /\ chunking.chunks[k].end_char - chunking.chunks[k].start_char
                  <= chunking.self.chunk_size
            /\ chunking.chunks[k].text =
                  Strip(Slice(NormalizeText(chunking.text),
                              chunking.chunks[k].start_char,
                              chunking.chunks[k].end_char))

(***************************************************************************)
(* The validation report and the application (ValidateSpec, AppSpec).      *)
(***************************************************************************)
\* a check of the report that fails with severity error
FailedWithError(results) ==
    \E i \in DOMAIN results.checks :
        /\ results.checks[i].status = "FAIL"
        /\ results.checks[i].severity = "error"

HasStatus(results, status) ==
    \E i \in DOMAIN results.checks : results.checks[i].status = status

\* C30 (validation report consistency): the result of validate_documents
\* has total_checks = passed_checks + failed_checks + warnings = the number
\* of entries in checks, and its overall_status is FAIL if and only if some
\* recorded check has status FAIL with severity error, and PASS otherwise.
C30_ReportConsistent ==
    validation.called =>
        /\ validation.results.total_checks =
               validation.results.passed_checks
               + validation.results.failed_checks
               + validation.results.warnings
        /\ validation.results.total_checks = Len(validation.results.checks)
        /\ validation.results.overall_status \in {"PASS", "FAIL"}
        /\ validation.results.overall_status = "FAIL"
               <=> FailedWithError(validation.results)

\* a report with passed, failed and warning checks, FAIL overall
C30_Witness ==
    /\ validation.called
    /\ validation.results.overall_status = "FAIL"
    /\ HasStatus(validation.results, "PASS")
    /\ HasStatus(validation.results, "FAIL")
    /\ HasStatus(validation.results, "WARNING")
    /\ validation.results.total_checks = 7

\* C23 (UI gating): while the analysis handler runs add_policy_document,
\* validation_passed is true and the last validate_documents run was on the
\* policy and claim records the session holds and returned PASS.
C23_AnalysisGated ==
    ui.stage = "analyzing" =>
        /\ session.validation_passed
        /\ ui.validated.policy_json = session.policy_json
        /\ ui.validated.claim_json = session.claim_json
        /\ ui.validated.results.overall_status = "PASS"

\* C29 (chatbot document binding): after an analysis that succeeded and
\* whose list_documents call answered, the session's doc_id is the id
\* add_policy_document returned to that analysis.
C29_ChatbotBinding ==
    (ui.stage = "idle" /\ ui.analysis.outcome = "ok" /\ ui.analysis.listed) =>
        session.doc_id = ui.analysis.returned

====
